---- MODULE Spec2Model ----
(***************************************************************************)
(* RaftStorage (kv/storage/raft_storage/raft_server.go): the storage       *)
(* facade that turns Write/Reader calls into raft commands, proposes them  *)
(* to the raft group router together with a callback, waits for the        *)
(* callback and inspects the response; it also starts and stops the node,  *)
(* forwards inbound raft messages and hands inbound snapshot streams to    *)
(* the snapshot worker.                                                    *)
(*                                                                         *)
(* The router, the callback, the node and the workers are other packages   *)
(* of the repository (kv/raftstore, kv/util/worker); they are modelled     *)
(* from the specification text and kept apart from the facade's own code.  *)
(***************************************************************************)
EXTENDS Integers, Sequences, FiniteSets, TLC

\* ------------------------------------------------------------------ bounds
NumCalls == 2          \* concurrent Write/Reader calls
MaxEpoch == 2          \* the region epoch grows from 1 up to this
MaxBatchLen == 2       \* longest batch of the single-call specification
MaxMsgs == 3           \* messages one Raft stream delivers
NumSnaps == 2          \* Snapshot calls
MaxChunks == 2         \* data chunks of the largest snapshot

Calls == 1..NumCalls

\* ------------------------------------------------------------- data values
CFs == {"default"}
HostedRegions == {1}   \* the region this store has a peer of
Keys == {"a", "b"}
NoValue == ""

\* storage.Modify: Data is a storage.Put, a storage.Delete, or anything else
PutMod(k, v) == [type |-> "Put", cf |-> "default", key |-> k, value |-> v]
DeleteMod(k) == [type |-> "Delete", cf |-> "default", key |-> k]
OtherMod == [type |-> "Other"]

Mods == {PutMod("a", "1"), PutMod("b", "2"), DeleteMod("a"), DeleteMod("b"), OtherMod}

RECURSIVE SeqsUpTo(_, _)
SeqsUpTo(S, n) ==
    IF n = 0 THEN {<<>>}
    ELSE LET shorter == SeqsUpTo(S, n - 1)
         IN shorter \cup {Append(s, x) : s \in {t \in shorter : Len(t) = n - 1}, x \in S}

\* every batch up to MaxBatchLen (single-call specification)
AllBatches == SeqsUpTo(Mods, MaxBatchLen)

\* the batches of the concurrent specification: the example of the
\* specification text and one with a foreign modification
Batches ==
    { <<PutMod("a", "1"), DeleteMod("b")>>,
      <<PutMod("b", "2"), OtherMod>> }

\* the batches of the specification with fairness
LiveBatches == { <<>>, <<PutMod("a", "1"), DeleteMod("b")>> }

\* kvrpcpb.Context
Context(r, e) == [RegionId |-> r, Peer |-> [Id |-> 11, StoreId |-> 3],
               RegionEpoch |-> e, Term |-> 5]

IsPutDelete(batch) == \A i \in 1..Len(batch) : batch[i].type \in {"Put", "Delete"}

\* ------------------------------------------------- Write: building the command
\* raft_cmdpb.Request of one modification (the body of the type switch)
PutRequest(m) == [CmdType |-> "Put", Put |-> [Cf |-> m.cf, Key |-> m.key, Value |-> m.value]]
DeleteRequest(m) == [CmdType |-> "Delete", Delete |-> [Cf |-> m.cf, Key |-> m.key]]
SnapRequest == [CmdType |-> "Snap"]

\* the loop over the batch: append a request for a Put or a Delete, and
\* nothing for any other modification (the switch has no default case)
RECURSIVE AppendReqs(_, _)
AppendReqs(reqs, batch) ==
    IF batch = <<>> THEN reqs
    ELSE LET m == Head(batch)
         IN CASE m.type = "Put" -> AppendReqs(Append(reqs, PutRequest(m)), Tail(batch))
              [] m.type = "Delete" -> AppendReqs(Append(reqs, DeleteRequest(m)), Tail(batch))
              [] OTHER -> AppendReqs(reqs, Tail(batch))

\* the request list built back to front
RECURSIVE PrependReqs(_, _)
PrependReqs(reqs, batch) ==
    IF batch = <<>> THEN reqs
    ELSE LET m == Head(batch)
         IN CASE m.type = "Put" -> PrependReqs(<<PutRequest(m)>> \o reqs, Tail(batch))
              [] m.type = "Delete" -> PrependReqs(<<DeleteRequest(m)>> \o reqs, Tail(batch))
              [] OTHER -> PrependReqs(reqs, Tail(batch))
BuildReqsReversed(batch) == PrependReqs(<<>>, batch)

BuildReqs(batch) == AppendReqs(<<>>, batch)

\* the header with the term copied into the epoch field
HeaderEpochFromTerm(ctx) == [RegionId |-> ctx.RegionId, Peer |-> ctx.Peer,
                             RegionEpoch |-> ctx.Term, Term |-> ctx.Term]

\* raft_cmdpb.RaftRequestHeader built from the context
Header(ctx) == [RegionId |-> ctx.RegionId, Peer |-> ctx.Peer,
                RegionEpoch |-> ctx.RegionEpoch, Term |-> ctx.Term]

WriteRequest(ctx, batch) == [Header |-> Header(ctx), Requests |-> BuildReqs(batch)]
ReaderRequest(ctx) == [Header |-> Header(ctx), Requests |-> <<SnapRequest>>]

\* ------------------------------------------------------------------- state
VARIABLES
    pc,              \* per call: "idle", "waiting" (blocked in WaitResp), "done"
    op,              \* per call: the kind of call and its arguments
    request,         \* per call: the RaftCmdRequest the call built
    sends,           \* per call: number of commands handed to SendRaftCommand
    proposeOk,       \* per call: SendRaftCommand returned nil
    callCb,          \* per call: the callback the call created
    result,          \* per call: what the call returned (or that it panicked)
    cbs,             \* the callback objects: times fulfilled, Resp, Txn
    queue,           \* router: accepted commands not yet applied, in propose order
    epoch,           \* router: the region's current epoch
    kv,              \* the applied state of the region
    hist,            \* the requests applied so far, each with the call it came from
    openTxns,        \* callbacks whose read handle (Txn) has not been discarded
    fulfilledBefore, \* per call: writes whose callback had been fulfilled without
                     \* error when the call proposed
    laterCalls,      \* per call: the calls that had not yet proposed when it proposed
    staleAtCall,     \* per call: its context's epoch was older than the region's
    failedByStop,    \* callbacks failed by the node's shutdown
    stopPc,          \* position of Stop
    closed,          \* engine handles that are closed
    stopResult,      \* what Stop returned
    startPc,         \* Start: "new", "started", "failed"
    startLog,        \* the components created and started so far, in order
    startResult,     \* what Start returned
    comps,           \* run state of the two workers and of the node
    released,        \* calls whose reader was closed by its holder
    raftPc,          \* Raft: "idle", "recv", "done"
    recvd,           \* the messages stream.Recv returned, in order
    forwards,        \* the messages handed to SendRaftMessage, in order
    sendErrs,        \* what SendRaftMessage returned for each forward
    streamErr,       \* the error stream.Recv returned
    raftResult,      \* what Raft returned
    snapPc,          \* Snapshot, per call: "idle", "waiting", "returned"
    snapErr,         \* Snapshot's local err
    done,            \* Snapshot's channel done: closed or not
    snapResult,      \* what Snapshot returned
    snapQueue,       \* the tasks in the snapshot worker's channel
    handed,          \* the number of tasks each Snapshot call handed over
    cur,             \* the task the snapshot worker is running, 0 for none
    phase,           \* per session: "none", "receiving", "installed", "failed"
    staging,         \* per session: the staged metadata and data chunks
    fed,             \* per session: the chunks taken in before it ended
    live,            \* the region's live state
    liveBefore,      \* the live state when the session began
    liveAfter,       \* the live state when the session ended
    cbCalls          \* the errors the session's callback was invoked with

callVars == <<pc, op, request, sends, proposeOk, callCb, result,
              fulfilledBefore, laterCalls, staleAtCall>>
routerVars == <<queue, epoch, kv, hist>>
stopVars == <<stopPc, closed, stopResult>>
startVars == <<startPc, startLog, startResult>>
lifeVars == <<startVars, comps, released>>
raftVars == <<raftPc, recvd, forwards, sendErrs, streamErr, raftResult>>
snapCallVars == <<snapPc, snapErr, done, snapResult, snapQueue, handed>>
snapWorkerVars == <<cur, phase, staging, fed, live, liveBefore, liveAfter, cbCalls>>
ingestVars == <<raftVars, snapCallVars, snapWorkerVars>>
vars == <<callVars, cbs, routerVars, openTxns, failedByStop, stopVars, lifeVars, ingestVars>>

\* --------------------------------------------------------- responses, errors
NoResp == [nil |-> TRUE]
NoTxn == [nil |-> TRUE]
NoRegion == [nil |-> TRUE]
NoReader == [nil |-> TRUE]
NoRequest == [nil |-> TRUE]
NoOp == [kind |-> "none"]
NoError == ""                       \* Header.Error == nil

Resp(e, responses) == [Header |-> [Error |-> e], Responses |-> responses]

NilErr == [kind |-> "nil"]
ProposeErr == [kind |-> "propose"]
\* RegionError{RequestErr: e}
RegionError(e) == [kind |-> "RegionError", RequestErr |-> e]
\* errors.Errorf("responses count %d is not equal to requests count %d", ...)
CountErr(got, want) == [kind |-> "errorf", got |-> got, want |-> want]

Pending == [outcome |-> "none", err |-> NilErr, reader |-> NoReader, msg |-> ""]
Return(e) == [outcome |-> "return", err |-> e, reader |-> NoReader, msg |-> ""]
ReturnReader(r) == [outcome |-> "return", err |-> NilErr, reader |-> r, msg |-> ""]
Panic(m) == [outcome |-> "panic", err |-> NilErr, reader |-> NoReader, msg |-> m]

\* checkResponse, with the header check skipped
CheckCountOnly(resp, reqCount) ==
    IF Len(resp.Responses) # reqCount
    THEN CountErr(Len(resp.Responses), reqCount)
    ELSE NilErr

\* checkResponse, with the two checks in the other order
CheckCountFirst(resp, reqCount) ==
    IF Len(resp.Responses) # reqCount
    THEN CountErr(Len(resp.Responses), reqCount)
    ELSE IF resp.Header.Error # NoError
    THEN RegionError(resp.Header.Error)
    ELSE NilErr

checkResponse(resp, reqCount) ==
    IF resp.Header.Error # NoError
    THEN RegionError(resp.Header.Error)
    ELSE IF Len(resp.Responses) # reqCount
    THEN CountErr(Len(resp.Responses), reqCount)
    ELSE NilErr

\* ---------------------------------------------------------------- callbacks
\* message.NewCallback(): a fresh, unfulfilled callback for this call
SharedCallback(c) == 1
NewCallback(c) == c

FreshCb == [done |-> 0, Resp |-> NoResp, Txn |-> NoTxn]

\* Callback.Done: a nil callback is ignored
Done(cs, cb, resp, txn) ==
    IF cb = 0 THEN cs
    ELSE [cs EXCEPT ![cb] = [done |-> @.done + 1, Resp |-> resp, Txn |-> txn]]

\* WaitResp returns once the callback has been fulfilled
WaitRespReady(c) == cbs[callCb[c]].done > 0

\* ------------------------------------------------------------ Start order
Workers == {"snapWorker", "resolveWorker"}

\* Start with the node created and started before the snapshot subsystem
StartOrderNodeEarly ==
    << "router.create", "resolver.create", "resolver.start", "node.create",
       "node.start", "snap.create", "snap.start", "transport.create" >>

\* lines 194-211: what Start creates and starts, in the order of its statements
StartOrder ==
    << "router.create",        \* 194 raftstore.CreateRaftstore
       "resolver.create",      \* 196 worker.NewWorker("resolver")
       "resolver.start",       \* 199 rs.resolveWorker.Start
       "snap.create",          \* 201-202 snap.NewSnapManager, worker.NewWorker("snap-worker")
       "snap.start",           \* 205 rs.snapWorker.Start
       "transport.create",     \* 207-208 newRaftClient, NewServerTransport
       "node.create",          \* 210 raftstore.NewNode
       "node.start" >>         \* 211 rs.node.Start

\* lines 71-73: NewRaftStorage creates the engines
Constructed == << "engines.create" >>

\* ------------------------------------------------------- streams, snapshots
Snaps == 1..NumSnaps
Msgs == {"m1", "m2"}
StreamErrs == {"EOF", "reset"}
SendErrs == {"nil", "notDelivered"}

\* a snapshot message: one metadata chunk, then the data chunks
MetaChunk(n) == [kind |-> "meta", n |-> n]
DataChunk(i, valid) == [kind |-> "data", idx |-> i, valid |-> valid]
Chunks ==
    {MetaChunk(n) : n \in 1..MaxChunks}
        \cup {DataChunk(i, v) : i \in 1..MaxChunks, v \in BOOLEAN}
\* the sender's region state behind a snapshot of n data chunks
SenderState(n) == [i \in 1..n |-> i]
SnapshotMessage(n) == <<MetaChunk(n)>> \o [i \in 1..n |-> DataChunk(i, TRUE)]

EmptyStaging == [meta |-> 0, data |-> <<>>]

\* ------------------------------------------------------------------ initial
\* no call yet, nothing proposed, Stop not called
InitCalls ==
    /\ pc = [c \in Calls |-> "idle"]
    /\ op = [c \in Calls |-> NoOp]
    /\ request = [c \in Calls |-> NoRequest]
    /\ sends = [c \in Calls |-> 0]
    /\ proposeOk = [c \in Calls |-> FALSE]
    /\ callCb = [c \in Calls |-> 0]
    /\ result = [c \in Calls |-> Pending]
    /\ cbs = [c \in Calls |-> FreshCb]
    /\ queue = <<>>
    /\ epoch = 1
    /\ kv = [k \in Keys |-> NoValue]
    /\ hist = <<>>
    /\ openTxns = {}
    /\ fulfilledBefore = [c \in Calls |-> {}]
    /\ laterCalls = [c \in Calls |-> {}]
    /\ staleAtCall = [c \in Calls |-> FALSE]
    /\ failedByStop = {}
    /\ stopPc = "idle"
    /\ closed = {}
    /\ stopResult = "none"
    /\ released = {}
    /\ raftPc = "idle"
    /\ recvd = <<>>
    /\ forwards = <<>>
    /\ sendErrs = <<>>
    /\ streamErr = "nil"
    /\ raftResult = "none"
    /\ snapPc = [s \in Snaps |-> "idle"]
    /\ snapErr = [s \in Snaps |-> "nil"]
    /\ done = [s \in Snaps |-> FALSE]
    /\ snapResult = [s \in Snaps |-> "none"]
    /\ snapQueue = <<>>
    /\ handed = [s \in Snaps |-> 0]
    /\ cur = 0
    /\ phase = [s \in Snaps |-> "none"]
    /\ staging = [s \in Snaps |-> EmptyStaging]
    /\ fed = [s \in Snaps |-> <<>>]
    /\ live = <<>>
    /\ liveBefore = [s \in Snaps |-> <<>>]
    /\ liveAfter = [s \in Snaps |-> <<>>]
    /\ cbCalls = [s \in Snaps |-> <<>>]

\* the storage after NewRaftStorage and a successful Start
Init ==
    /\ InitCalls
    /\ startPc = "started"
    /\ startLog = Constructed \o StartOrder
    /\ startResult = "nil"
    /\ comps = [w \in Workers \cup {"node"} |-> "running"]

\* the storage after NewRaftStorage
InitNew ==
    /\ InitCalls
    /\ startPc = "new"
    /\ startLog = Constructed
    /\ startResult = "none"
    /\ comps = [w \in Workers \cup {"node"} |-> "none"]

\* ------------------------------------------------------------------- Start
\* the run state of the workers and the node after one statement of Start
AfterStart(cs, ev, ok) ==
    CASE ev = "resolver.create" -> [cs EXCEPT !["resolveWorker"] = "created"]
      [] ev = "resolver.start" -> [cs EXCEPT !["resolveWorker"] = "running"]
      [] ev = "snap.create" -> [cs EXCEPT !["snapWorker"] = "created"]
      [] ev = "snap.start" -> [cs EXCEPT !["snapWorker"] = "running"]
      [] ev = "node.create" -> [cs EXCEPT !["node"] = "created"]
      [] ev = "node.start" -> [cs EXCEPT !["node"] = IF ok THEN "running" ELSE "created"]
      [] OTHER -> cs

\* lines 192-216, one statement at a time; an error of node.Start is returned
StartStep ==
    /\ startPc = "new"
    /\ Len(startLog) - Len(Constructed) < Len(StartOrder)
    /\ LET ev == StartOrder[Len(startLog) - Len(Constructed) + 1]
           last == Len(startLog) - Len(Constructed) + 1 = Len(StartOrder)
       IN \E ok \in IF ev = "node.start" THEN BOOLEAN ELSE {TRUE} :
             /\ startLog' = Append(startLog, ev)
             /\ comps' = AfterStart(comps, ev, ok)
             /\ startPc' = IF ~ok THEN "failed" ELSE IF last THEN "started" ELSE "new"
             /\ startResult' = IF ~ok THEN "nodeStartErr" ELSE IF last THEN "nil" ELSE "none"
    /\ UNCHANGED <<callVars, cbs, routerVars, openTxns, failedByStop, stopVars, released, ingestVars>>

\* -------------------------------------------------- the facade: Write, Reader
NodeStopped == stopPc \notin {"idle", "snapStopped"}

\* what a call hands to SendRaftCommand: one command carrying the whole request
\* list, with the call's callback
OneCommandPerRequest(c, req, cb) ==
    [i \in 1..Len(req.Requests) |->
        [req |-> [Header |-> req.Header, Requests |-> <<req.Requests[i]>>],
         cb |-> IF i = Len(req.Requests) THEN cb ELSE 0,
         call |-> c]]
ProposedCmds(c, req, cb) == <<[req |-> req, cb |-> cb, call |-> c]>>

\* writes whose callback has been fulfilled with a response without error
FulfilledWrites ==
    {w \in Calls : /\ op[w].kind = "Write"
                   /\ proposeOk[w]
                   /\ cbs[callCb[w]].done > 0
                   /\ cbs[callCb[w]].Resp.Header.Error = NoError}

\* lines 85-121 (Write) and 132-148 (Reader): build the request, create the
\* callback, propose; a propose error is returned at once
Propose(c, kind, ctx, batch, req, accepted) ==
    LET cb == NewCallback(c)
        cmds == ProposedCmds(c, req, cb)
    IN /\ pc[c] = "idle"
       /\ IF c = 1 THEN TRUE ELSE pc[c - 1] # "idle"
       /\ op' = [op EXCEPT ![c] = [kind |-> kind, ctx |-> ctx, batch |-> batch]]
       /\ request' = [request EXCEPT ![c] = req]
       /\ callCb' = [callCb EXCEPT ![c] = cb]
       /\ sends' = [sends EXCEPT ![c] = Len(cmds)]
       /\ proposeOk' = [proposeOk EXCEPT ![c] = accepted]
       /\ fulfilledBefore' = [fulfilledBefore EXCEPT ![c] = FulfilledWrites]
       /\ laterCalls' = [laterCalls EXCEPT ![c] = {d \in Calls \ {c} : pc[d] = "idle"}]
       /\ staleAtCall' = [staleAtCall EXCEPT ![c] = ctx.RegionEpoch < epoch]
       /\ IF accepted
          THEN /\ queue' = queue \o cmds
               /\ pc' = [pc EXCEPT ![c] = "waiting"]
               /\ UNCHANGED result
          ELSE /\ pc' = [pc EXCEPT ![c] = "done"]
               /\ result' = [result EXCEPT ![c] = Return(ProposeErr)]
               /\ UNCHANGED queue
       /\ UNCHANGED <<cbs, epoch, kv, hist, openTxns, failedByStop, stopVars, lifeVars, ingestVars>>

\* SendRaftCommand: an error when the region has no peer on this store or the
\* node has stopped
Accepts(req) == ~NodeStopped /\ req.Header.RegionId \in HostedRegions

WritePropose(c, regions, batches) ==
    \E r \in regions, e \in 1..epoch, batch \in batches :
        LET req == WriteRequest(Context(r, e), batch)
        IN Propose(c, "Write", Context(r, e), batch, req, Accepts(req))

ReaderPropose(c, regions) ==
    \E r \in regions, e \in 1..epoch :
        LET req == ReaderRequest(Context(r, e))
        IN Propose(c, "Reader", Context(r, e), <<>>, req, Accepts(req))

\* line 123: return rs.checkResponse(cb.WaitResp(), len(reqs))
WriteResult(resp, reqs) ==
    IF resp = NoResp THEN Panic("nil pointer dereference")
    ELSE Return(checkResponse(resp, Len(reqs)))

\* Write that reads the callback's response without waiting for it
WriteNoWait(c) == TRUE
\* line 123: Write goes on once cb.WaitResp() has returned
WriteWaits(c) == WaitRespReady(c)

WriteReturn(c) ==
    /\ pc[c] = "waiting"
    /\ op[c].kind = "Write"
    /\ WriteWaits(c)
    /\ result' = [result EXCEPT ![c] =
                    WriteResult(cbs[callCb[c]].Resp, BuildReqs(op[c].batch))]
    /\ pc' = [pc EXCEPT ![c] = "done"]
    /\ UNCHANGED <<op, request, sends, proposeOk, callCb, fulfilledBefore, laterCalls,
                   staleAtCall, cbs, routerVars, openTxns, failedByStop, stopVars, lifeVars, ingestVars>>

\* resp.Responses[0].GetSnap().Region: nil when the entry is no Snap response
SnapRegion(entry) ==
    IF entry.CmdType = "Snap" THEN entry.Snap.Region ELSE NoRegion

\* Reader that opens its own view of the engine when the callback returns
ReaderResultLocalTxn(resp, txn) ==
    IF resp = NoResp THEN Panic("nil pointer dereference")
    ELSE LET err == checkResponse(resp, 1)
         IN IF err # NilErr THEN Return(err)
            ELSE IF txn = NoTxn THEN Panic("can not found region snap")
            ELSE IF SnapRegion(resp.Responses[1]) = NoRegion
            THEN Panic("nil pointer dereference")
            ELSE ReturnReader([txn |-> [kv |-> kv, hist |-> hist],
                               region |-> SnapRegion(resp.Responses[1])])

\* Reader that goes on to build the reader without looking at cb.Txn
ReaderResultNoTxnCheck(resp, txn) ==
    IF resp = NoResp THEN Panic("nil pointer dereference")
    ELSE LET err == checkResponse(resp, 1)
         IN IF err # NilErr THEN Return(err)
            ELSE IF SnapRegion(resp.Responses[1]) = NoRegion
            THEN Panic("nil pointer dereference")
            ELSE ReturnReader([txn |-> txn, region |-> SnapRegion(resp.Responses[1])])

\* lines 150-163
ReaderResult(resp, txn) ==
    IF resp = NoResp THEN Panic("nil pointer dereference")
    ELSE LET err == checkResponse(resp, 1)
         IN IF err # NilErr THEN Return(err)
            ELSE IF txn = NoTxn THEN Panic("can not found region snap")
            ELSE IF Len(resp.Responses) # 1 THEN Panic("wrong response count for snap cmd")
            ELSE IF SnapRegion(resp.Responses[1]) = NoRegion
            THEN Panic("nil pointer dereference")
            ELSE ReturnReader([txn |-> txn, region |-> SnapRegion(resp.Responses[1])])

\* Reader that returns the error and leaves an attached Txn as it is
ReaderNeverDiscards(resp, txn) == FALSE

\* Reader that discards an attached Txn on a Region Error only
ReaderDiscardsOnRegionError(resp, txn) ==
    /\ resp # NoResp
    /\ resp.Header.Error # NoError
    /\ txn # NoTxn

\* lines 151-156: on an error of checkResponse an attached Txn is discarded
ReaderDiscards(resp, txn) ==
    /\ resp # NoResp
    /\ checkResponse(resp, 1) # NilErr
    /\ txn # NoTxn

ReaderReturn(c) ==
    LET cb == cbs[callCb[c]]
    IN /\ pc[c] = "waiting"
       /\ op[c].kind = "Reader"
       /\ WaitRespReady(c)
       /\ result' = [result EXCEPT ![c] = ReaderResult(cb.Resp, cb.Txn)]
       /\ openTxns' = IF ReaderDiscards(cb.Resp, cb.Txn)
                      THEN openTxns \ {callCb[c]} ELSE openTxns
       /\ pc' = [pc EXCEPT ![c] = "done"]
       /\ UNCHANGED <<op, request, sends, proposeOk, callCb, fulfilledBefore, laterCalls,
                      staleAtCall, cbs, routerVars, failedByStop, stopVars, lifeVars, ingestVars>>

\* the holder of a returned reader closes it: the read handle is discarded
ReleaseReader(c) ==
    /\ pc[c] = "done"
    /\ result[c].reader # NoReader
    /\ c \notin released
    /\ released' = released \cup {c}
    /\ openTxns' = openTxns \ {callCb[c]}
    /\ UNCHANGED <<callVars, cbs, routerVars, failedByStop, stopVars, startVars, comps, ingestVars>>

\* -------------------------------------------------------------------- Raft
\* line 166: Raft is called with a stream
RaftCall ==
    /\ raftPc = "idle"
    /\ raftPc' = "recv"
    /\ UNCHANGED <<recvd, forwards, sendErrs, streamErr, raftResult>>
    /\ UNCHANGED <<callVars, cbs, routerVars, openTxns, failedByStop, stopVars, lifeVars>>
    /\ UNCHANGED <<snapCallVars, snapWorkerVars>>

\* Raft that gives up when the router reports a message as not delivered
RaftReturnsOnSendError(sendErr) == sendErr # "nil"
\* line 172: what SendRaftMessage returns is not looked at
RaftReturnsAfterSend(sendErr) == FALSE

\* lines 168-171: stream.Recv failed, Raft returns that error
RaftRecvFails ==
    /\ raftPc = "recv"
    /\ \E e \in StreamErrs :
          /\ streamErr' = e
          /\ raftResult' = e
    /\ raftPc' = "done"
    /\ UNCHANGED <<recvd, forwards, sendErrs>>
    /\ UNCHANGED <<callVars, cbs, routerVars, openTxns, failedByStop, stopVars, lifeVars>>
    /\ UNCHANGED <<snapCallVars, snapWorkerVars>>

\* lines 168-172: one turn of the loop with a message received; the router
\* delivers it to the region's peer or reports it as not delivered
RaftRecv ==
    /\ raftPc = "recv"
    /\ Len(recvd) < MaxMsgs
    /\ \E msg \in Msgs, sendErr \in SendErrs :
          /\ recvd' = Append(recvd, msg)
          /\ forwards' = Append(forwards, msg)
          /\ sendErrs' = Append(sendErrs, sendErr)
          /\ IF RaftReturnsAfterSend(sendErr)
             THEN raftPc' = "done" /\ raftResult' = sendErr
             ELSE UNCHANGED <<raftPc, raftResult>>
    /\ UNCHANGED streamErr
    /\ UNCHANGED <<callVars, cbs, routerVars, openTxns, failedByStop, stopVars, lifeVars>>
    /\ UNCHANGED <<snapCallVars, snapWorkerVars>>

\* ---------------------------------------------------------------- Snapshot
\* lines 179-185: the tasks Snapshot sends to the snapshot worker
SnapshotTasks(s) == <<s>>

\* lines 177-185: done is made, one recvSnapTask is sent, Snapshot blocks
Snapshot(s) ==
    /\ snapPc[s] = "idle"
    /\ IF s = 1 THEN TRUE ELSE snapPc[s - 1] # "idle"
    /\ snapQueue' = snapQueue \o SnapshotTasks(s)
    /\ handed' = [handed EXCEPT ![s] = @ + Len(SnapshotTasks(s))]
    /\ snapPc' = [snapPc EXCEPT ![s] = "waiting"]
    /\ UNCHANGED <<snapErr, done, snapResult>>
    /\ UNCHANGED <<callVars, cbs, routerVars, openTxns, failedByStop, stopVars, lifeVars>>
    /\ UNCHANGED <<raftVars, snapWorkerVars>>

\* Snapshot that returns err without receiving from done
SnapshotNoWait(s) == TRUE
\* line 186: <-done
SnapshotWaits(s) == done[s]

\* lines 186-187: done is closed, Snapshot returns err
SnapshotReturn(s) ==
    /\ snapPc[s] = "waiting"
    /\ SnapshotWaits(s)
    /\ snapResult' = [snapResult EXCEPT ![s] = snapErr[s]]
    /\ snapPc' = [snapPc EXCEPT ![s] = "returned"]
    /\ UNCHANGED <<snapErr, done, snapQueue, handed>>
    /\ UNCHANGED <<callVars, cbs, routerVars, openTxns, failedByStop, stopVars, lifeVars>>
    /\ UNCHANGED <<raftVars, snapWorkerVars>>

\* lines 181-184: the task's callback sets err and closes done
callback(s, e) ==
    /\ snapErr' = [snapErr EXCEPT ![s] = e]
    /\ done' = [done EXCEPT ![s] = TRUE]
    /\ cbCalls' = [cbCalls EXCEPT ![s] = Append(@, e)]

\* ------------------------------------------- the snapshot worker (receive side)
\* the worker takes the next task of its channel and begins the session
TakeTask ==
    /\ cur = 0
    /\ snapQueue # <<>>
    /\ cur' = Head(snapQueue)
    /\ snapQueue' = Tail(snapQueue)
    /\ phase' = [phase EXCEPT ![Head(snapQueue)] = "receiving"]
    /\ liveBefore' = [liveBefore EXCEPT ![Head(snapQueue)] = live]
    /\ UNCHANGED <<staging, fed, live, liveAfter, cbCalls>>
    /\ UNCHANGED <<snapPc, snapErr, done, snapResult, handed>>
    /\ UNCHANGED <<callVars, cbs, routerVars, openTxns, failedByStop, stopVars, lifeVars>>
    /\ UNCHANGED raftVars

\* the next chunk is the one the session expects and it validates: the
\* metadata chunk first, then the data chunks in order
ChunkInOrder(st, ch) ==
    IF st.meta = 0
    THEN ch.kind = "meta"
    ELSE /\ ch.kind = "data"
         /\ ch.idx = Len(st.data) + 1
         /\ ch.idx <= st.meta
         /\ ch.valid

Stage(st, ch) ==
    IF ch.kind = "meta"
    THEN [st EXCEPT !.meta = ch.n]
    ELSE [st EXCEPT !.data = Append(@, ch.idx)]

\* a session that installs whatever has been staged when the stream ends
AnythingStaged(st) == st.meta # 0
\* every expected chunk has been staged
StagingComplete(st) == st.meta # 0 /\ Len(st.data) = st.meta

\* the session ends without an install: the staged state is discarded, the
\* live state is left as it is, the failure is reported
Discard(s, e) ==
    /\ staging' = [staging EXCEPT ![s] = EmptyStaging]
    /\ phase' = [phase EXCEPT ![s] = "failed"]
    /\ liveAfter' = [liveAfter EXCEPT ![s] = live]
    /\ cur' = 0
    /\ callback(s, e)
    /\ UNCHANGED live

\* a chunk arrives: staged, or the session fails validation
RecvChunk ==
    /\ cur # 0
    /\ \E ch \in Chunks :
          IF ChunkInOrder(staging[cur], ch)
          THEN /\ staging' = [staging EXCEPT ![cur] = Stage(@, ch)]
               /\ fed' = [fed EXCEPT ![cur] = Append(@, ch)]
               /\ UNCHANGED <<cur, phase, live, liveAfter, cbCalls, snapErr, done>>
          ELSE /\ Discard(cur, "invalid")
               /\ UNCHANGED fed
    /\ UNCHANGED <<liveBefore, snapPc, snapResult, snapQueue, handed>>
    /\ UNCHANGED <<callVars, cbs, routerVars, openTxns, failedByStop, stopVars, lifeVars>>
    /\ UNCHANGED raftVars

\* the stream ends: the staged state is installed as the live state when it
\* is complete, and discarded otherwise
RecvEnd ==
    /\ cur # 0
    /\ IF StagingComplete(staging[cur])
       THEN /\ live' = staging[cur].data
            /\ liveAfter' = [liveAfter EXCEPT ![cur] = staging[cur].data]
            /\ staging' = [staging EXCEPT ![cur] = EmptyStaging]
            /\ phase' = [phase EXCEPT ![cur] = "installed"]
            /\ cur' = 0
            /\ callback(cur, "nil")
       ELSE Discard(cur, "incomplete")
    /\ UNCHANGED <<fed, liveBefore, snapPc, snapResult, snapQueue, handed>>
    /\ UNCHANGED <<callVars, cbs, routerVars, openTxns, failedByStop, stopVars, lifeVars>>
    /\ UNCHANGED raftVars

\* the stream is interrupted
RecvInterrupt ==
    /\ cur # 0
    /\ \E e \in StreamErrs \ {"EOF"} : Discard(cur, e)
    /\ UNCHANGED <<fed, liveBefore, snapPc, snapResult, snapQueue, handed>>
    /\ UNCHANGED <<callVars, cbs, routerVars, openTxns, failedByStop, stopVars, lifeVars>>
    /\ UNCHANGED raftVars

\* ------------------------------------------------ the router (raftstore package)
\* the region descriptor as of now
RegionNow == [Id |-> 1, RegionEpoch |-> epoch]

ApplyReq(store, r) ==
    CASE r.CmdType = "Put" -> [store EXCEPT ![r.Put.Key] = r.Put.Value]
      [] r.CmdType = "Delete" -> [store EXCEPT ![r.Delete.Key] = NoValue]
      [] OTHER -> store

RECURSIVE ApplyReqs(_, _)
ApplyReqs(store, reqs) ==
    IF reqs = <<>> THEN store
    ELSE ApplyReqs(ApplyReq(store, Head(reqs)), Tail(reqs))

Tagged(c, reqs) == [i \in 1..Len(reqs) |-> [call |-> c, req |-> reqs[i]]]

WriteResponses(reqs) == [i \in 1..Len(reqs) |-> [CmdType |-> reqs[i].CmdType]]
SnapResponses == <<[CmdType |-> "Snap", Snap |-> [Region |-> RegionNow]]>>

IsSnap(req) == Len(req.Requests) = 1 /\ req.Requests[1].CmdType = "Snap"

\* the command at the head of the log is applied as one entry and its callback
\* fulfilled: rejected on a stale epoch, a read handle attached for a Snap
Apply ==
    /\ queue # <<>>
    /\ ~NodeStopped
    /\ LET e == Head(queue)
       IN IF e.req.Header.RegionEpoch < epoch
          THEN /\ cbs' = Done(cbs, e.cb, Resp("EpochNotMatch", <<>>), NoTxn)
               /\ UNCHANGED <<kv, hist, openTxns>>
          ELSE IF IsSnap(e.req)
          THEN /\ cbs' = Done(cbs, e.cb, Resp(NoError, SnapResponses),
                              [kv |-> kv, hist |-> hist])
               /\ openTxns' = openTxns \cup ({e.cb} \ {0})
               /\ UNCHANGED <<kv, hist>>
          ELSE /\ kv' = ApplyReqs(kv, e.req.Requests)
               /\ hist' = hist \o Tagged(e.call, e.req.Requests)
               /\ cbs' = Done(cbs, e.cb, Resp(NoError, WriteResponses(e.req.Requests)), NoTxn)
               /\ UNCHANGED openTxns
    /\ queue' = Tail(queue)
    /\ UNCHANGED <<callVars, epoch, failedByStop, stopVars, lifeVars, ingestVars>>

\* a split or a membership change raises the region's epoch
EpochChange ==
    /\ epoch < MaxEpoch
    /\ ~NodeStopped
    /\ epoch' = epoch + 1
    /\ UNCHANGED <<callVars, cbs, queue, kv, hist, openTxns, failedByStop, stopVars, lifeVars, ingestVars>>

\* a router that answers the head command with any response at all
AnyRegionIds == {1, 2}
AnyRegions == {[Id |-> 1, RegionEpoch |-> 1], NoRegion}
AnyEntries == {[CmdType |-> "Put"]} \cup {[CmdType |-> "Snap", Snap |-> [Region |-> r]] : r \in AnyRegions}
AnyResps ==
    {Resp(e, [i \in 1..n |-> x]) :
        e \in {NoError, "EpochNotMatch"}, n \in 0..(MaxBatchLen + 1), x \in AnyEntries}

RespondAny ==
    /\ queue # <<>>
    /\ \E r \in AnyResps, t \in {NoTxn, [kv |-> kv, hist |-> hist]} :
          /\ cbs' = Done(cbs, Head(queue).cb, r, t)
          /\ openTxns' = IF t = NoTxn THEN openTxns ELSE openTxns \cup {Head(queue).cb}
    /\ queue' = Tail(queue)
    /\ UNCHANGED <<callVars, epoch, kv, hist, failedByStop, stopVars, lifeVars, ingestVars>>

\* Node.Stop: the in-flight callbacks are failed, none is dropped
RECURSIVE FailAll(_, _)
FailAll(cs, q) ==
    IF q = <<>> THEN cs
    ELSE FailAll(Done(cs, Head(q).cb, Resp("StoreStopped", <<>>), NoTxn), Tail(q))

\* ------------------------------------------------------------------- Stop
\* line 221: rs.snapWorker.Stop()
StopSnapWorker ==
    /\ stopPc = "idle"
    /\ stopPc' = "snapStopped"
    /\ comps' = [comps EXCEPT !["snapWorker"] = "stopping"]
    /\ UNCHANGED <<callVars, cbs, routerVars, openTxns, failedByStop, closed, stopResult>>
    /\ UNCHANGED <<startVars, released, ingestVars>>

\* line 222: rs.node.Stop()
StopNode ==
    /\ stopPc = "snapStopped"
    /\ stopPc' = "nodeStopped"
    /\ cbs' = FailAll(cbs, queue)
    /\ failedByStop' = failedByStop \cup ({queue[i].cb : i \in 1..Len(queue)} \ {0})
    /\ queue' = <<>>
    /\ comps' = [comps EXCEPT !["node"] = "stopped"]
    /\ UNCHANGED <<callVars, epoch, kv, hist, openTxns, closed, stopResult>>
    /\ UNCHANGED <<startVars, released, ingestVars>>

\* line 223: rs.resolveWorker.Stop()
StopResolveWorker ==
    /\ stopPc = "nodeStopped"
    /\ stopPc' = "resolverStopped"
    /\ comps' = [comps EXCEPT !["resolveWorker"] = "stopping"]
    /\ UNCHANGED <<callVars, cbs, routerVars, openTxns, failedByStop, closed, stopResult>>
    /\ UNCHANGED <<startVars, released, ingestVars>>

\* Stop going on to close the engines without waiting for the workers
WaitWorkersSkipped ==
    /\ stopPc = "resolverStopped"
    /\ stopPc' = "waited"
    /\ UNCHANGED <<callVars, cbs, routerVars, openTxns, failedByStop, closed, stopResult>>
    /\ UNCHANGED <<startVars, comps, released, ingestVars>>

\* line 224: rs.wg.Wait() returns when every worker of the wait group, each
\* told to stop, has finished
WaitWorkers ==
    /\ stopPc = "resolverStopped"
    /\ \A w \in Workers : comps[w] # "running"
    /\ stopPc' = "waited"
    /\ comps' = [w \in DOMAIN comps |-> IF comps[w] = "stopping" THEN "exited" ELSE comps[w]]
    /\ UNCHANGED <<callVars, cbs, routerVars, openTxns, failedByStop, closed, stopResult>>
    /\ UNCHANGED <<startVars, released, ingestVars>>

\* lines 225-227: a failing Close of the raft engine ends Stop
CloseRaft ==
    /\ stopPc = "waited"
    /\ \E ok \in BOOLEAN :
          IF ok
          THEN /\ closed' = closed \cup {"raft"}
               /\ stopPc' = "raftClosed"
               /\ UNCHANGED stopResult
          ELSE /\ UNCHANGED closed
               /\ stopPc' = "returned"
               /\ stopResult' = "raftCloseErr"
    /\ UNCHANGED <<callVars, cbs, routerVars, openTxns, failedByStop, lifeVars, ingestVars>>

\* lines 228-231
CloseKv ==
    /\ stopPc = "raftClosed"
    /\ \E ok \in BOOLEAN :
          IF ok
          THEN /\ closed' = closed \cup {"kv"}
               /\ stopResult' = "nil"
          ELSE /\ UNCHANGED closed
               /\ stopResult' = "kvCloseErr"
    /\ stopPc' = "returned"
    /\ UNCHANGED <<callVars, cbs, routerVars, openTxns, failedByStop, lifeVars, ingestVars>>

Stop == StopSnapWorker \/ StopNode \/ StopResolveWorker \/ WaitWorkers \/ CloseRaft \/ CloseKv

\* ------------------------------------------------------------ specifications
Next ==
    \/ \E c \in Calls : WritePropose(c, HostedRegions, Batches)
    \/ \E c \in Calls : ReaderPropose(c, HostedRegions)
    \/ \E c \in Calls : WriteReturn(c)
    \/ \E c \in Calls : ReaderReturn(c)
    \/ Apply
    \/ EpochChange
    \/ StopSnapWorker
    \/ StopNode
    \/ StopResolveWorker
    \/ WaitWorkers
    \/ CloseRaft
    \/ CloseKv

Spec == Init /\ [][Next]_vars

\* one call, every batch, a router that may answer anything
NextAny ==
    \/ WritePropose(1, AnyRegionIds, AllBatches)
    \/ ReaderPropose(1, AnyRegionIds)
    \/ WriteReturn(1)
    \/ ReaderReturn(1)
    \/ RespondAny
    \/ EpochChange

SpecAny == Init /\ [][NextAny]_vars

\* Reader calls only, a router that may answer anything, readers released
NextReaders ==
    \/ \E c \in Calls : ReaderPropose(c, AnyRegionIds)
    \/ \E c \in Calls : ReaderReturn(c)
    \/ \E c \in Calls : ReleaseReader(c)
    \/ RespondAny

SpecReaders == Init /\ [][NextReaders]_vars

\* the whole life of the storage: Start, then reads served and released while
\* Stop may be called at any time
NextLife ==
    \/ StartStep
    \/ startPc = "started" /\ \E c \in Calls : ReaderPropose(c, HostedRegions)
    \/ startPc = "started" /\ \E c \in Calls : ReaderReturn(c)
    \/ startPc = "started" /\ \E c \in Calls : ReleaseReader(c)
    \/ startPc = "started" /\ Apply
    \/ startPc = "started" /\ StopSnapWorker
    \/ StopNode
    \/ StopResolveWorker
    \/ WaitWorkers
    \/ CloseRaft
    \/ CloseKv

SpecLife == InitNew /\ [][NextLife]_vars

\* one Raft stream, fed messages until its Recv fails
NextRaft ==
    \/ RaftCall
    \/ RaftRecv
    \/ RaftRecvFails

SpecRaft == Init /\ [][NextRaft]_vars

\* Snapshot calls and the snapshot worker receiving their streams
NextSnapshot ==
    \/ \E s \in Snaps : Snapshot(s)
    \/ \E s \in Snaps : SnapshotReturn(s)
    \/ TakeTask
    \/ RecvChunk
    \/ RecvEnd
    \/ RecvInterrupt

SpecSnapshot == Init /\ [][NextSnapshot]_vars

\* the callers' threads and the router's apply loop keep running
NextLive ==
    \/ \E c \in Calls : WritePropose(c, HostedRegions, LiveBatches)
    \/ \E c \in Calls : ReaderPropose(c, HostedRegions)
    \/ \E c \in Calls : WriteReturn(c)
    \/ \E c \in Calls : ReaderReturn(c)
    \/ Apply
    \/ StopSnapWorker
    \/ StopNode
    \/ StopResolveWorker
    \/ WaitWorkers
    \/ CloseRaft
    \/ CloseKv

FairSpec ==
    /\ Init
    /\ [][NextLive]_vars
    /\ WF_vars(Apply)
    /\ \A c \in Calls : WF_vars(WriteReturn(c)) /\ WF_vars(ReaderReturn(c))

\* ------------------------------------------------------------------ claims
RespOf(c) == cbs[callCb[c]].Resp
Started(c) == pc[c] # "idle"
Returned(c) == pc[c] = "done"
GotReader(c) == result[c].reader # NoReader

\* the entries of a history that come from one call
CallEntries(h, w) == SelectSeq(h, LAMBDA x : x.call = w)
Contiguous(h, w) ==
    \A i, j, k \in 1..Len(h) :
        (i < j /\ j < k /\ h[i].call = w /\ h[k].call = w) => h[j].call = w

RECURSIVE Replay(_, _)
Replay(store, h) ==
    IF h = <<>> THEN store ELSE Replay(ApplyReq(store, Head(h).req), Tail(h))
EmptyStore == [k \in Keys |-> NoValue]

\* every state of the region anyone can look at: the applied state, the read
\* handles attached to callbacks, the readers returned
Views ==
    {[kv |-> kv, hist |-> hist]}
    \cup {cbs[c].Txn : c \in {d \in Calls : cbs[d].Txn # NoTxn}}
    \cup {result[c].reader.txn : c \in {d \in Calls : GotReader(d)}}

\* C1: a reader returned by a Reader call proposed after a write's callback was
\* fulfilled without error contains the whole of that write, and a reader
\* returned by a Reader call proposed before a write was proposed contains
\* nothing of it; what the reader shows is the replay of what it contains.
C1_LinearizableRead ==
    \A r \in Calls :
        GotReader(r) =>
            LET t == result[r].reader.txn
            IN /\ t.kv = Replay(EmptyStore, t.hist)
               /\ \A w \in fulfilledBefore[r] :
                     CallEntries(t.hist, w) = Tagged(w, BuildReqs(op[w].batch))
               /\ \A w \in laterCalls[r] : CallEntries(t.hist, w) = <<>>

C1_Witness ==
    \E r \in Calls :
        /\ GotReader(r)
        /\ fulfilledBefore[r] # {}
        /\ result[r].reader.txn.kv["a"] = "1"

\* C2: every call hands exactly one command to the router, and in the applied
\* state and in every read handle and reader the requests of a Write's batch
\* are all there, in order and next to each other, or none of them is.
C2_BatchAtomic ==
    /\ \A c \in Calls : Started(c) => sends[c] = 1
    /\ \A v \in Views :
          /\ v.kv = Replay(EmptyStore, v.hist)
          /\ \A w \in Calls :
                \/ CallEntries(v.hist, w) = <<>>
                \/ /\ op[w].kind = "Write"
                   /\ CallEntries(v.hist, w) = Tagged(w, BuildReqs(op[w].batch))
                   /\ Contiguous(v.hist, w)

\* a reader that raced with a write (proposed after the write was proposed and
\* before its callback was fulfilled) and sees the whole batch
C2_Witness ==
    \E r, w \in Calls :
        /\ r # w
        /\ GotReader(r)
        /\ op[w].kind = "Write"
        /\ w \notin fulfilledBefore[r]
        /\ w \notin laterCalls[r]
        /\ Len(CallEntries(result[r].reader.txn.hist, w)) = 2

\* the response a callback holds answers the call's own command
OwnOutcome(c) ==
    \/ RespOf(c).Header.Error # NoError
    \/ /\ Len(RespOf(c).Responses) = Len(request[c].Requests)
       /\ \A i \in 1..Len(request[c].Requests) :
             RespOf(c).Responses[i].CmdType = request[c].Requests[i].CmdType

\* C3: each call creates a callback no other call has, hands one command to
\* SendRaftCommand once, no callback is fulfilled twice, and a call whose
\* command the router accepted returns with its callback fulfilled exactly
\* once, with the outcome of its own command.
C3_ExactlyOnce ==
    /\ \A c \in Calls : Started(c) => sends[c] = 1
    /\ \A c, d \in Calls : (Started(c) /\ Started(d) /\ c # d) => callCb[c] # callCb[d]
    /\ \A c \in Calls : cbs[c].done <= 1
    /\ \A c \in Calls :
          (Returned(c) /\ proposeOk[c]) =>
              /\ cbs[callCb[c]].done = 1
              /\ OwnOutcome(c)

C3_Witness ==
    \E c, d \in Calls :
        /\ c # d
        /\ Returned(c) /\ Returned(d)
        /\ proposeOk[c] /\ proposeOk[d]
        /\ op[c].kind = "Write" /\ op[d].kind = "Reader"
        /\ c \in laterCalls[d]
        /\ cbs[callCb[c]].done = 1 /\ cbs[callCb[d]].done = 1

\* C4: a Write whose fulfilled response has an error in its header returns the
\* RegionError of exactly that error, whatever the number of responses.
C4_RegionErrorReturned ==
    \A c \in Calls :
        (/\ Returned(c) /\ proposeOk[c] /\ op[c].kind = "Write"
         /\ RespOf(c).Header.Error # NoError)
        => result[c] = Return(RegionError(RespOf(c).Header.Error))

C4_Witness ==
    \E c \in Calls :
        /\ Returned(c) /\ proposeOk[c] /\ op[c].kind = "Write"
        /\ RespOf(c).Header.Error = "EpochNotMatch"
        /\ Len(RespOf(c).Responses) # Len(request[c].Requests)
        /\ result[c] = Return(RegionError("EpochNotMatch"))

\* C5: a Write whose context carried an epoch older than the region's is never
\* applied, so no view of the region ever contains one of its requests, and it
\* returns an error: a RegionError whenever the router accepted the command.
C5_StaleWriteRejected ==
    \A c \in Calls :
        (op[c].kind = "Write" /\ staleAtCall[c]) =>
            /\ \A v \in Views : CallEntries(v.hist, c) = <<>>
            /\ Returned(c) => /\ result[c].outcome = "return"
                              /\ result[c].err # NilErr
                              /\ proposeOk[c] => result[c].err.kind = "RegionError"

\* a stale write was rejected and a reader obtained afterwards sees the
\* contents of an earlier write only
C5_Witness ==
    \E c, r \in Calls :
        /\ op[c].kind = "Write" /\ staleAtCall[c] /\ Returned(c)
        /\ result[c] = Return(RegionError("EpochNotMatch"))
        /\ GotReader(r)
        /\ c \notin laterCalls[r]

\* C6: a call is blocked only after its command was accepted; a callback is
\* fulfilled only after its call proposed; a call whose command was accepted
\* has returned only if its callback was fulfilled; a call whose propose
\* failed has returned that error and its callback was never fulfilled.
C6_Synchronous ==
    \A c \in Calls :
        /\ pc[c] = "waiting" => (proposeOk[c] /\ result[c] = Pending)
        /\ result[c] # Pending => Returned(c)
        /\ cbs[c].done > 0 => \E d \in Calls : callCb[d] = c /\ proposeOk[d]
        /\ (Returned(c) /\ proposeOk[c]) => cbs[callCb[c]].done > 0
        /\ (Returned(c) /\ ~proposeOk[c]) =>
              (result[c] = Return(ProposeErr) /\ cbs[callCb[c]].done = 0)

C6_Witness ==
    \E c, d \in Calls :
        /\ Returned(c) /\ proposeOk[c] /\ cbs[callCb[c]].done = 1
        /\ result[c] = Return(NilErr)
        /\ Returned(d) /\ ~proposeOk[d] /\ result[d] = Return(ProposeErr)

\* C7: a call blocked on its callback eventually returns, and a call whose
\* callback was failed by the node's shutdown returns an error.
C7_NoDeadlock ==
    /\ \A c \in Calls : (pc[c] = "waiting") ~> (pc[c] = "done")
    /\ [](\A c \in Calls :
            (Returned(c) /\ proposeOk[c] /\ callCb[c] \in failedByStop) =>
                (result[c].outcome = "return" /\ result[c].err # NilErr))

C7_Witness ==
    \E c \in Calls :
        /\ Returned(c) /\ proposeOk[c]
        /\ callCb[c] \in failedByStop
        /\ result[c] = Return(RegionError("StoreStopped"))

\* C8: a Write that returns nil had a response without error whose number of
\* responses is the size of the batch it was given.
C8_SuccessCountsBatch ==
    \A c \in Calls :
        (Returned(c) /\ op[c].kind = "Write" /\ result[c] = Return(NilErr)) =>
            /\ RespOf(c).Header.Error = NoError
            /\ Len(RespOf(c).Responses) = Len(op[c].batch)

\* the number of responses a call expects
Expected(c) == IF op[c].kind = "Write" THEN Len(BuildReqs(op[c].batch)) ELSE 1

\* C9: a fulfilled response without error whose number of responses is not
\* the expected one aborts the call; it is never returned as an error value.
C9_CountMismatchAborts ==
    \A c \in Calls :
        (/\ Returned(c) /\ proposeOk[c]
         /\ RespOf(c).Header.Error = NoError
         /\ Len(RespOf(c).Responses) # Expected(c))
        => result[c].outcome = "panic"

MatchesMod(r, m) ==
    \/ /\ m.type = "Put" /\ r.CmdType = "Put"
       /\ r.Put.Cf = m.cf /\ r.Put.Key = m.key /\ r.Put.Value = m.value
    \/ /\ m.type = "Delete" /\ r.CmdType = "Delete"
       /\ r.Delete.Cf = m.cf /\ r.Delete.Key = m.key

\* C10: for a batch of Puts and Deletes, Write hands one command to the
\* router; its request list is as long as the batch, its i-th request is the
\* i-th modification translated, and its header carries the context's region
\* id, peer, epoch and term; the command in the router's queue is that one.
C10_CommandBuilt ==
    \A c \in Calls :
        (Started(c) /\ op[c].kind = "Write" /\ IsPutDelete(op[c].batch)) =>
            /\ sends[c] = 1
            /\ Len(request[c].Requests) = Len(op[c].batch)
            /\ \A i \in 1..Len(op[c].batch) :
                  MatchesMod(request[c].Requests[i], op[c].batch[i])
            /\ request[c].Header.RegionId = op[c].ctx.RegionId
            /\ request[c].Header.Peer = op[c].ctx.Peer
            /\ request[c].Header.RegionEpoch = op[c].ctx.RegionEpoch
            /\ request[c].Header.Term = op[c].ctx.Term
            /\ \A i \in 1..Len(queue) : queue[i].call = c => queue[i].req = request[c]

C10_Witness ==
    \E c \in Calls :
        /\ pc[c] = "waiting" /\ op[c].kind = "Write"
        /\ op[c].batch = <<DeleteMod("b"), PutMod("a", "1")>>
        /\ op[c].ctx.RegionEpoch = 2
        /\ Len(queue) = 1 /\ queue[1].req = request[c]


\* C11: a Reader call that returned a Region Error has no read handle of its
\* callback outstanding, also when the router attached one despite the error.
C11_RegionErrorDiscards ==
    \A c \in Calls :
        (/\ Returned(c)
         /\ op[c].kind = "Reader"
         /\ result[c].err.kind = "RegionError")
        => callCb[c] \notin openTxns

C11_Witness ==
    \E c \in Calls :
        /\ Returned(c)
        /\ op[c].kind = "Reader"
        /\ result[c].err.kind = "RegionError"
        /\ cbs[callCb[c]].Txn # NoTxn
        /\ callCb[c] \notin openTxns

\* C12: a reader is returned only for a response without Region Error, with
\* exactly one entry and with a read handle attached; a response that passes
\* the check but has no read handle or no region descriptor ends in a panic;
\* the reader holds the callback's read handle and the response's region
\* descriptor, whatever the epoch of the caller's context.
C12_ReaderBound ==
    \A c \in Calls :
        (Returned(c) /\ op[c].kind = "Reader" /\ proposeOk[c]) =>
            LET resp == RespOf(c)
                txn == cbs[callCb[c]].Txn
                passes == resp.Header.Error = NoError /\ Len(resp.Responses) = 1
            IN /\ GotReader(c) =>
                     /\ passes
                     /\ txn # NoTxn
                     /\ result[c].reader.txn = txn
                     /\ result[c].reader.region = SnapRegion(resp.Responses[1])
                     /\ result[c].reader.region # NoRegion
               /\ (passes /\ (txn = NoTxn \/ SnapRegion(resp.Responses[1]) = NoRegion))
                     => result[c].outcome = "panic"

C12_Witness ==
    /\ Returned(1)
    /\ op[1].kind = "Reader"
    /\ GotReader(1)
    /\ epoch = 2
    /\ op[1].ctx.RegionEpoch = 2
    /\ result[1].reader.region.RegionEpoch = 1
    /\ result[1].reader.txn = cbs[callCb[1]].Txn

C13_NoCloseUnderReader ==
    closed # {} =>
        \A c \in Calls : (Returned(c) /\ GotReader(c)) => callCb[c] \notin openTxns

\* what has been told to stop
Stopped(w) == comps[w] \in {"stopping", "exited", "stopped"}
CloseAttempted == closed # {} \/ stopPc \in {"raftClosed", "returned"}

\* C14: the resolver worker is stopped only after the snapshot worker and the
\* node; an engine is closed (or its close attempted) only after all three
\* have been stopped and both workers have finished.
C14_StopOrder ==
    /\ Stopped("resolveWorker") => (Stopped("snapWorker") /\ Stopped("node"))
    /\ CloseAttempted =>
          /\ \A w \in Workers \cup {"node"} : Stopped(w)
          /\ \A w \in Workers : comps[w] = "exited"

C14_Witness ==
    /\ closed = {"raft", "kv"}
    /\ \A w \in Workers : comps[w] = "exited"
    /\ comps["node"] = "stopped"

\* the component a statement of Start (or of the constructor) provisions
Component(ev) ==
    CASE ev = "engines.create" -> "engines"
      [] ev = "router.create" -> "router"
      [] ev \in {"resolver.create", "resolver.start"} -> "resolver"
      [] ev \in {"snap.create", "snap.start"} -> "snapshot"
      [] ev = "transport.create" -> "transport"
      [] ev \in {"node.create", "node.start"} -> "node"
AllEvents ==
    {"engines.create", "router.create", "resolver.create", "resolver.start",
     "snap.create", "snap.start", "transport.create", "node.create", "node.start"}

\* every component ranked below the one of log[j] was created, and started if
\* it is one that is started, before position j
InOrder(log, rank) ==
    \A j \in 1..Len(log) :
        \A ev \in AllEvents :
            rank[Component(ev)] < rank[Component(log[j])]
                => \E i \in 1..(j - 1) : log[i] = ev

\* engines, resolver, snapshot subsystem, transport, router (with its node) last
ListedOrder ==
    [engines |-> 1, resolver |-> 2, snapshot |-> 3, transport |-> 4, router |-> 5, node |-> 5]
\* engines, router, resolver, snapshot subsystem, transport, node last
RouterFirstOrder ==
    [engines |-> 1, router |-> 2, resolver |-> 3, snapshot |-> 4, transport |-> 5, node |-> 6]

\* C15 as stated: nothing is created or started before the components listed
\* ahead of it in engines, resolver, snapshot subsystem, transport, router.
C15_ListedOrder == InOrder(startLog, ListedOrder)

\* C15 as amended: the router is created first after the engines, then come the
\* resolver, the snapshot subsystem and the transport, and the node is created
\* and started last.
C15_RouterFirst == InOrder(startLog, RouterFirstOrder)

C15_Witness ==
    /\ startPc = "started"
    /\ startResult = "nil"
    /\ Len(startLog) = Cardinality(AllEvents)
    /\ comps = [w \in Workers \cup {"node"} |-> "running"]

\* C20: when Stop has returned, with nil or with an error, the engine whose
\* close did not fail is closed.
C20_BothClosed ==
    stopPc = "returned" =>
        /\ stopResult = "nil" => closed = {"raft", "kv"}
        /\ stopResult = "raftCloseErr" => "kv" \in closed
        /\ stopResult = "kvCloseErr" => "raft" \in closed

\* C16: a Snapshot call hands exactly one receive task to the snapshot worker
\* and returns only after its session has completed or failed and the
\* session's callback has been invoked, with exactly the callback's error.
C16_SnapshotBlocks ==
    \A s \in Snaps :
        /\ handed[s] = IF snapPc[s] = "idle" THEN 0 ELSE 1
        /\ snapPc[s] = "returned" =>
              /\ phase[s] \in {"installed", "failed"}
              /\ Len(cbCalls[s]) = 1
              /\ snapResult[s] = cbCalls[s][1]

C16_Witness ==
    \E s, t \in Snaps :
        /\ snapPc[s] = "returned" /\ phase[s] = "installed" /\ snapResult[s] = "nil"
        /\ snapPc[t] = "returned" /\ phase[t] = "failed" /\ snapResult[t] = "reset"

\* C17: Raft hands every message it received to the router, once each and in
\* the order received, whatever the router reports; it has returned exactly
\* when Recv failed, and then with Recv's error.
C17_RaftForwards ==
    /\ forwards = recvd
    /\ Len(sendErrs) = Len(forwards)
    /\ raftPc = "done" => (streamErr \in StreamErrs /\ raftResult = streamErr)
    /\ raftPc # "done" => (streamErr = "nil" /\ raftResult = "none")

C17_Witness ==
    /\ raftPc = "done"
    /\ raftResult = "EOF"
    /\ Len(recvd) >= 2
    /\ recvd[1] # recvd[2]
    /\ sendErrs[1] = "notDelivered"
    /\ forwards = recvd

\* C18: the live state is replaced only by the install of a session that took
\* in the metadata chunk and every data chunk, in order and valid, and nothing
\* else; a session in progress or failed leaves the live state as it was, and
\* a failed session's staging area is empty.
C18_AllOrNothing ==
    /\ \A s \in Snaps :
          /\ phase[s] = "receiving" => live = liveBefore[s]
          /\ phase[s] = "failed" =>
                (liveAfter[s] = liveBefore[s] /\ staging[s] = EmptyStaging)
          /\ phase[s] = "installed" =>
                \E n \in 1..MaxChunks :
                    /\ fed[s] = SnapshotMessage(n)
                    /\ liveAfter[s] = SenderState(n)
    /\ live # <<>> => \E s \in Snaps : phase[s] = "installed" /\ live = liveAfter[s]

C18_Witness ==
    \E s, t \in Snaps :
        /\ phase[s] = "installed"
        /\ phase[t] = "failed"
        /\ Len(fed[t]) >= 2
        /\ liveBefore[t] = liveAfter[s]
        /\ live = liveAfter[s]
        /\ live # <<>>
====
